---- MODULE Spec2Model ----
(***************************************************************************)
(* Model of app/generate_html_dashboard.py: a one-shot script that loads   *)
(* reports/metrics.json, renders it to an HTML document and writes         *)
(* reports/dashboard.html.                                                 *)
(*                                                                         *)
(* Python strings on which the script does character work are sequences of *)
(* one-character strings.  JSON values are tagged records.  An HTML        *)
(* document is the sequence of the fragments the script appends to `html`, *)
(* each fragment a record of its kind and of the values interpolated in it.*)
(***************************************************************************)
EXTENDS Integers, Sequences, FiniteSets, TLC

VARIABLES
    pc,           \* main: position of the run
    metricsFile,  \* file system: reports/metrics.json
    outDir,       \* file system: does the directory reports/ exist
    outFile,      \* file system: reports/dashboard.html
    metrics,      \* main: local `metrics`
    html,         \* main: local `html`
    stdout,       \* what has been printed, in order
    events,       \* history: the steps main has taken, in order
    now,          \* the wall clock read by datetime.now()
    fn,           \* unit harness: the function under call
    arg,          \* unit harness: its argument
    ret,          \* unit harness: the latest result
    prev,         \* unit harness: the result before the latest
    calls         \* unit harness: number of calls made

vars == <<pc, metricsFile, outDir, outFile, metrics, html, stdout, events, now,
          fn, arg, ret, prev, calls>>

mainVars == <<pc, metricsFile, outDir, outFile, metrics, html, stdout, events>>
callVars == <<fn, arg, ret, prev, calls>>

---------------------------------------------------------------------------
(* Bounds of the model *)

MaxDisks == 3       \* longest disk list of a snapshot
MaxNets == 2        \* longest network list of a snapshot
MaxDigits == 7      \* longest byte count, in base-1024 digits
MaxClock == 2       \* the clock takes the values 0..MaxClock
MaxCalls == 2       \* calls made by the unit harness
MaxPercent == 101   \* percentages range over -1..MaxPercent

---------------------------------------------------------------------------
(* JSON values as json.load returns them *)

None == [t |-> "null"]
Num(n) == [t |-> "num", v |-> n]
Str(s) == [t |-> "str", v |-> s]
Dict(f) == [t |-> "obj", v |-> f]
List(s) == [t |-> "list", v |-> s]
EmptyDict == Dict(<<>>)
EmptyList == List(<<>>)

IsDict(x) == x.t = "obj"
IsNum(x) == x.t = "num"
IsStr(x) == x.t = "str"

\* dict.get(key, default); on anything but a dict the attribute lookup fails,
\* which the callers test with IsDict before they use the result.
Get(d, key, default) ==
    IF IsDict(d) /\ key \in DOMAIN d.v THEN d.v[key] ELSE default

NoExc == "none"

\* The outcome of a stretch of code: the exception it raised (NoExc when it
\* ran through) and what it produced.
Ran(out) == [raised |-> NoExc, out |-> out]
Raise(exc) == [raised |-> exc, out |-> <<>>]

---------------------------------------------------------------------------
(* str methods *)

startswith(s, prefix) ==
    Len(s) >= Len(prefix) /\ SubSeq(s, 1, Len(prefix)) = prefix

endswith(s, suffix) ==
    Len(s) >= Len(suffix) /\ SubSeq(s, Len(s) - Len(suffix) + 1, Len(s)) = suffix

\* str.replace(old, new): every non-overlapping occurrence, left to right
RECURSIVE replace(_, _, _)
replace(s, old, new) ==
    IF Len(s) < Len(old) THEN s
    ELSE IF SubSeq(s, 1, Len(old)) = old
         THEN new \o replace(SubSeq(s, Len(old) + 1, Len(s)), old, new)
         ELSE <<Head(s)>> \o replace(Tail(s), old, new)

Gi == <<"G", "i">>
GB == <<" ", "G", "B">>
DEVFS == <<"d", "e", "v", "f", "s">>
MAP == <<"m", "a", "p">>
NA == <<"N", "/", "A">>

---------------------------------------------------------------------------
(* format_bytes *)

\* A byte count is an arbitrary-size Python int: here a big-endian sequence
\* of base-1024 digits without leading zero (<<>> is 0).  Inside the loop
\* bytes_value is a float n / 1024^i: the digits before the point and the
\* digits after it.  Dividing a float by 1024 is exact, so the pair is the
\* float's value whenever n itself is a float (see BytesInputs).  The first
\* division is of an int: it raises OverflowError when the quotient is
\* beyond the floats, that is when n / 1024 >= 2^1024 = 16 * 1024^102.
K == 1024
Half == K \div 2
Units == <<"B", "KB", "MB", "GB", "TB">>

FromInt(n) == [int |-> n, frac |-> <<>>]

\* Mutant: bytes_value <= 1024
LessOrEqualK(x) ==
    \/ Len(x.int) <= 1
    \/ x.int = <<1, 0>> /\ \A i \in DOMAIN x.frac : x.frac[i] = 0

\* bytes_value < 1024
LessThanK(x) == Len(x.int) <= 1

\* int / 1024 is too large for a float: n >= 16 * 1024^103
OverflowDigits == (1024 \div 10) + 2
OverflowTop == 2 ^ (1024 % 10)
IntTooLarge(n) ==
    \/ Len(n) > OverflowDigits
    \/ Len(n) = OverflowDigits /\ n[1] >= OverflowTop

\* bytes_value / 1024
DivK(x) ==
    IF x.int = <<>> THEN [int |-> <<>>, frac |-> <<0>> \o x.frac]
    ELSE [int |-> SubSeq(x.int, 1, Len(x.int) - 1),
          frac |-> <<x.int[Len(x.int)]>> \o x.frac]

\* digits after the point times m: the integer part and the remaining digits
RECURSIVE MulFrac(_, _)
MulFrac(f, m) ==
    IF f = <<>> THEN [carry |-> 0, digits |-> <<>>]
    ELSE LET r == MulFrac(Tail(f), m)
             t == Head(f) * m + r.carry
         IN [carry |-> t \div K, digits |-> <<t % K>> \o r.digits]

\* n + 1 on digits
RECURSIVE Inc(_)
Inc(n) ==
    IF n = <<>> THEN <<1>>
    ELSE IF n[Len(n)] + 1 < K THEN [n EXCEPT ![Len(n)] = @ + 1]
    ELSE Inc(SubSeq(n, 1, Len(n) - 1)) \o <<0>>

\* f"{bytes_value:.2f} {unit}": two decimals, correctly rounded (ties to even)
Fmt2(x, unit) ==
    LET m == MulFrac(x.frac, 100)
        rest == m.digits
        tail0 == \A i \in 2..Len(rest) : rest[i] = 0
        above == rest # <<>> /\ (rest[1] > Half \/ (rest[1] = Half /\ ~tail0))
        tie == rest # <<>> /\ rest[1] = Half /\ tail0
        up == above \/ (tie /\ m.carry % 2 = 1)
        cents == IF up THEN m.carry + 1 ELSE m.carry
    IN IF cents = 100
       THEN [whole |-> Inc(x.int), cents |-> 0, unit |-> unit]
       ELSE [whole |-> x.int, cents |-> cents, unit |-> unit]

ZeroB == [text |-> "0 B"]

\* the loop over the units; bytes_value is the int argument in the first
\* pass and a float from then on
RECURSIVE FormatLoop(_, _)
FormatLoop(x, i) ==
    IF i > Len(Units) THEN Ran(Fmt2(x, "PB"))
    ELSE IF LessThanK(x) THEN Ran(Fmt2(x, Units[i]))
    ELSE IF i = 1 /\ IntTooLarge(x.int) THEN Raise("OverflowError")
    ELSE FormatLoop(DivK(x), i + 1)

format_bytes(bytes_value) ==
    IF bytes_value = <<>> THEN Ran(ZeroB)
    ELSE FormatLoop(FromInt(bytes_value), 1)

\* a small non-negative int of a snapshot as digits
RECURSIVE ToDigits(_)
ToDigits(n) == IF n = 0 THEN <<>> ELSE ToDigits(n \div K) \o <<n % K>>

---------------------------------------------------------------------------
(* get_status_color *)

GREEN == "#28a745"
YELLOW == "#ffc107"
RED == "#dc3545"

\* Mutant: the thresholds taken inclusive
get_status_color_inclusive(percent) ==
    IF percent <= 50 THEN GREEN
    ELSE IF percent <= 80 THEN YELLOW
    ELSE RED

get_status_color(percent) ==
    IF percent < 50 THEN GREEN
    ELSE IF percent < 80 THEN YELLOW
    ELSE RED

---------------------------------------------------------------------------
(* generate_html *)

\* the first exception of a sequence of outcomes, in order
RECURSIVE FirstExc(_)
FirstExc(es) ==
    IF es = <<>> THEN NoExc
    ELSE IF Head(es) # NoExc THEN Head(es)
    ELSE FirstExc(Tail(es))

\* x.get(...): AttributeError unless x is a dict
GetExc(x) == IF IsDict(x) THEN NoExc ELSE "AttributeError"
\* x / 1024, x > 0, x < 50, x < 1024: TypeError unless x is a number
NumExc(x) == IF IsNum(x) THEN NoExc ELSE "TypeError"
\* f"{x:.1f}", f"{x:.2f}", f"{x:,}": a str rejects the format code, any
\* other non-number does not support a format string
FmtExc(x) ==
    IF IsNum(x) THEN NoExc ELSE IF IsStr(x) THEN "ValueError" ELSE "TypeError"
\* x.endswith(...), x.startswith(...): AttributeError unless x is a str
StrExc(x) == IF IsStr(x) THEN NoExc ELSE "AttributeError"

\* `for item in x`: a list gives its items, a str its characters, a dict
\* its keys (each key is given as a one-element str: only its being a str
\* is used), anything else is not iterable.
Iter(x) ==
    IF x.t = "list" THEN Ran(x.v)
    ELSE IF x.t = "str" THEN Ran([i \in 1..Len(x.v) |-> Str(<<x.v[i]>>)])
    ELSE IF x.t = "obj"
         THEN LET keys == DOMAIN x.v
                  order == CHOOSE f \in [1..Cardinality(keys) -> keys] :
                               \A i, j \in DOMAIN f : i # j => f[i] # f[j]
              IN Ran([i \in 1..Cardinality(keys) |-> Str(<<order[i]>>)])
    ELSE Raise("TypeError")

\* f"{x / 1024:.2f} GB" for a number x >= 0
GBText(x) == Fmt2(DivK(FromInt(ToDigits(x.v))), "GB")
\* f"{x:.1f}", f"{x:.2f}", f"{x:,}" for a number x
FmtText(code, x) == [fmt |-> code, v |-> x.v]

\* if s.endswith('Gi'): s = s.replace('Gi', ' GB')
FormatSize(s) == IF endswith(s, Gi) THEN replace(s, Gi, GB) ELSE s

\* Mutant: only devfs is filtered out
KeepDiskDevfsOnly(fs) == ~startswith(fs, DEVFS)

\* Filter out system disks: the loop over `disks`
KeepDisk(fs) == ~startswith(fs, DEVFS) /\ ~startswith(fs, MAP)

RECURSIVE FilterDisksLoop(_, _)
FilterDisksLoop(items, main_disks) ==
    IF items = <<>> THEN Ran(main_disks)
    ELSE LET disk == Head(items)
             fs == Get(disk, "filesystem", Str(<<>>))
         IN IF ~IsDict(disk) THEN Raise("AttributeError")
            ELSE IF ~IsStr(fs) THEN Raise("AttributeError")
            ELSE FilterDisksLoop(Tail(items),
                     IF KeepDisk(fs.v) THEN Append(main_disks, disk)
                     ELSE main_disks)

FilterDisks(disks) ==
    LET it == Iter(disks)
    IN IF it.raised # NoExc THEN it ELSE FilterDisksLoop(it.out, <<>>)

\* Mutant: an interface is kept only with traffic both ways
RECURSIVE FilterNetsLoopBoth(_, _)
FilterNetsLoopBoth(items, active_networks) ==
    IF items = <<>> THEN Ran(active_networks)
    ELSE LET net == Head(items)
             rx == Get(net, "rx_bytes", Num(0))
             tx == Get(net, "tx_bytes", Num(0))
         IN IF ~IsDict(net) THEN Raise("AttributeError")
            ELSE IF ~IsNum(rx) THEN Raise("TypeError")
            ELSE IF rx.v <= 0 THEN FilterNetsLoopBoth(Tail(items), active_networks)
            ELSE IF ~IsNum(tx) THEN Raise("TypeError")
            ELSE FilterNetsLoopBoth(Tail(items),
                     IF tx.v > 0 THEN Append(active_networks, net)
                     ELSE active_networks)

\* Filter active network interfaces: the loop over `networks`
RECURSIVE FilterNetsLoop(_, _)
FilterNetsLoop(items, active_networks) ==
    IF items = <<>> THEN Ran(active_networks)
    ELSE LET net == Head(items)
             rx == Get(net, "rx_bytes", Num(0))
             tx == Get(net, "tx_bytes", Num(0))
         IN IF ~IsDict(net) THEN Raise("AttributeError")
            ELSE IF ~IsNum(rx) THEN Raise("TypeError")
            ELSE IF rx.v > 0
                 THEN FilterNetsLoop(Tail(items), Append(active_networks, net))
            ELSE IF ~IsNum(tx) THEN Raise("TypeError")
            ELSE FilterNetsLoop(Tail(items),
                     IF tx.v > 0 THEN Append(active_networks, net)
                     ELSE active_networks)

FilterNets(networks) ==
    LET it == Iter(networks)
    IN IF it.raised # NoExc THEN it ELSE FilterNetsLoop(it.out, <<>>)

UNKNOWN == <<"U", "n", "k", "n", "o", "w", "n">>

\* html = f"""...""": the head of the document, the info bar, the CPU
\* section and the memory cards, one f-string evaluated left to right
HeadSection(m) ==
    LET cpu == Get(m, "cpu", EmptyDict)
        memory == Get(m, "memory", EmptyDict)
        system_load == Get(m, "system_load", EmptyDict)
        cpu_usage == Get(cpu, "cpu_usage_percent", Num(0))
        mem_total == Get(memory, "memory_total_mb", Num(0))
        mem_used == Get(memory, "memory_used_mb", Num(0))
        mem_available == Get(memory, "memory_available_mb", Num(0))
        mem_percent == Get(memory, "memory_usage_percent", Num(0))
        exc == FirstExc(<<GetExc(system_load), FmtExc(cpu_usage),
                          NumExc(mem_total), NumExc(mem_used),
                          NumExc(mem_available), NumExc(mem_percent)>>)
    IN IF exc # NoExc THEN Raise(exc)
       ELSE Ran(<<
         [k |-> "info_bar",
          hostname |-> Get(m, "hostname", Str(UNKNOWN)),
          timestamp |-> Get(m, "timestamp", Str(NA)),
          uptime |-> Get(system_load, "uptime", Str(NA))],
         [k |-> "cpu",
          usage |-> FmtText(".1f", cpu_usage),
          width |-> cpu_usage,
          color |-> get_status_color(cpu_usage.v),
          cores |-> Get(cpu, "cpu_cores", Num(0)),
          temperature |-> Get(cpu, "cpu_temperature", Str(NA)),
          load_average |-> Get(cpu, "load_average", Str(NA)),
          model |-> Get(cpu, "cpu_model", Str(UNKNOWN))],
         [k |-> "memory",
          total |-> GBText(mem_total),
          used |-> GBText(mem_used),
          available |-> GBText(mem_available),
          color |-> get_status_color(mem_percent.v),
          usage |-> FmtText(".1f", mem_percent),
          width |-> mem_percent] >>)

\* Mutant: swap_total >= 0
HasSwapOrZero(swap_total) == swap_total.v >= 0

\* if swap_total > 0
HasSwap(swap_total) == swap_total.v > 0

\* Add swap if available
SwapSection(memory) ==
    LET swap_total == Get(memory, "swap_total_mb", Num(0))
        swap_used == Get(memory, "swap_used_mb", Num(0))
        swap_percent == Get(memory, "swap_usage_percent", Num(0))
    IN IF ~IsNum(swap_total) THEN Raise("TypeError")
       ELSE IF HasSwap(swap_total)
            THEN LET exc == FirstExc(<<NumExc(swap_used), NumExc(swap_percent)>>)
                 IN IF exc # NoExc THEN Raise(exc)
                    ELSE Ran(<< [k |-> "swap",
                                 total |-> GBText(swap_total),
                                 used |-> GBText(swap_used),
                                 color |-> get_status_color(swap_percent.v),
                                 usage |-> FmtText(".1f", swap_percent),
                                 width |-> swap_percent] >>)
       ELSE Ran(<<>>)

\* one pass of `for disk in main_disks`
DiskRow(disk) ==
    LET usage == Get(disk, "use_percent", Num(0))
        size == Get(disk, "size", Str(NA))
        used == Get(disk, "used", Str(NA))
        available == Get(disk, "available", Str(NA))
        exc == FirstExc(<<StrExc(size), StrExc(used), StrExc(available),
                          NumExc(usage)>>)
    IN IF exc # NoExc THEN Raise(exc)
       ELSE Ran(<< [k |-> "disk_row",
                    filesystem |-> Get(disk, "filesystem", Str(NA)),
                    size |-> FormatSize(size.v),
                    used |-> FormatSize(used.v),
                    available |-> FormatSize(available.v),
                    color |-> get_status_color(usage.v),
                    usage |-> usage] >>)

RECURSIVE DiskRows(_)
DiskRows(main_disks) ==
    IF main_disks = <<>> THEN Ran(<<>>)
    ELSE LET row == DiskRow(Head(main_disks))
             rest == DiskRows(Tail(main_disks))
         IN IF row.raised # NoExc THEN row
            ELSE IF rest.raised # NoExc THEN rest
            ELSE Ran(row.out \o rest.out)

\* Disk Section
DiskSection(main_disks) ==
    IF main_disks # <<>>
    THEN LET rows == DiskRows(main_disks)
         IN IF rows.raised # NoExc THEN rows
            ELSE Ran(<<[k |-> "disk_title"], [k |-> "disk_table"]>>
                     \o rows.out \o <<[k |-> "disk_table_end"]>>)
    ELSE Ran(<<[k |-> "disk_title"],
               [k |-> "p", text |-> "No disk information available"]>>)

\* GPU Section
GpuSection(gpu) ==
    IF ~IsDict(gpu) THEN Raise("AttributeError")
    ELSE Ran(<< [k |-> "gpu",
                 usage |-> Get(gpu, "gpu_usage_percent", Str(NA)),
                 temperature |-> Get(gpu, "gpu_temperature", Str(NA)),
                 memory |-> Get(gpu, "gpu_memory", Str(NA))] >>)

\* format_bytes(x): the comparison with 1024 raises TypeError unless x is a
\* number, and format_bytes may raise itself
BytesExc(x) ==
    IF ~IsNum(x) THEN "TypeError" ELSE format_bytes(ToDigits(x.v)).raised

\* one pass of `for net in active_networks`
NetRow(net) ==
    LET rx == Get(net, "rx_bytes", Num(0))
        tx == Get(net, "tx_bytes", Num(0))
        rxp == Get(net, "rx_packets", Num(0))
        txp == Get(net, "tx_packets", Num(0))
        exc == FirstExc(<<BytesExc(rx), BytesExc(tx), FmtExc(rxp), FmtExc(txp)>>)
    IN IF exc # NoExc THEN Raise(exc)
       ELSE Ran(<< [k |-> "net_row",
                    interface |-> Get(net, "interface", Str(NA)),
                    ip_address |-> Get(net, "ip_address", Str(NA)),
                    rx_bytes |-> format_bytes(ToDigits(rx.v)).out,
                    tx_bytes |-> format_bytes(ToDigits(tx.v)).out,
                    rx_packets |-> FmtText(",", rxp),
                    tx_packets |-> FmtText(",", txp)] >>)

RECURSIVE NetRows(_)
NetRows(active_networks) ==
    IF active_networks = <<>> THEN Ran(<<>>)
    ELSE LET row == NetRow(Head(active_networks))
             rest == NetRows(Tail(active_networks))
         IN IF row.raised # NoExc THEN row
            ELSE IF rest.raised # NoExc THEN rest
            ELSE Ran(row.out \o rest.out)

\* Network Section
NetSection(active_networks) ==
    IF active_networks # <<>>
    THEN LET rows == NetRows(active_networks)
         IN IF rows.raised # NoExc THEN rows
            ELSE Ran(<<[k |-> "net_title"], [k |-> "net_table"]>>
                     \o rows.out \o <<[k |-> "net_table_end"]>>)
    ELSE Ran(<<[k |-> "net_title"],
               [k |-> "p", text |-> "No active network interfaces"]>>)

\* System Load Section
LoadSection(system_load) ==
    LET l1 == Get(system_load, "load_1min", Num(0))
        l5 == Get(system_load, "load_5min", Num(0))
        l15 == Get(system_load, "load_15min", Num(0))
        exc == FirstExc(<<FmtExc(l1), FmtExc(l5), FmtExc(l15)>>)
    IN IF exc # NoExc THEN Raise(exc)
       ELSE Ran(<< [k |-> "load",
                    load_1min |-> FmtText(".2f", l1),
                    load_5min |-> FmtText(".2f", l5),
                    load_15min |-> FmtText(".2f", l15),
                    uptime |-> Get(system_load, "uptime", Str(NA))] >>)

\* Footer: the only place that reads the clock
Footer(clock) == <<[k |-> "footer", generated |-> clock]>>

\* The sections in the order the code runs them; the code stops at the
\* first that raises.
RECURSIVE RunAll(_, _)
RunAll(stages, acc) ==
    IF stages = <<>> THEN Ran(acc)
    ELSE IF Head(stages).raised # NoExc THEN Raise(Head(stages).raised)
    ELSE RunAll(Tail(stages), acc \o Head(stages).out)

\* the stretches of generate_html in order: the lookups in `metrics`, the
\* two filters, then the sections appended to `html`
Sections(m, clock) ==
    LET cpu == Get(m, "cpu", EmptyDict)
        memory == Get(m, "memory", EmptyDict)
        disks == Get(m, "disk", EmptyList)
        gpu == Get(m, "gpu", EmptyDict)
        networks == Get(m, "network", EmptyList)
        system_load == Get(m, "system_load", EmptyDict)
        main_disks == FilterDisks(disks)
        active_networks == FilterNets(networks)
    IN << [raised |-> GetExc(cpu), out |-> <<>>],
          [raised |-> GetExc(memory), out |-> <<>>],
          [raised |-> main_disks.raised, out |-> <<>>],
          [raised |-> active_networks.raised, out |-> <<>>],
          HeadSection(m),
          SwapSection(memory),
          DiskSection(main_disks.out),
          GpuSection(gpu),
          NetSection(active_networks.out),
          LoadSection(system_load),
          Ran(Footer(clock)) >>

\* Mutant: "Last Update" shows the time of rendering instead of the
\* snapshot's own timestamp.
generate_html_stamped(m, clock) ==
    IF ~IsDict(m) THEN Raise("AttributeError")
    ELSE LET stamped == Dict([key \in DOMAIN m.v \cup {"timestamp"} |->
                                 IF key = "timestamp" THEN Num(clock) ELSE m.v[key]])
         IN RunAll(Sections(stamped, clock), <<>>)

generate_html(m, clock) ==
    IF ~IsDict(m) THEN Raise("AttributeError")
    ELSE RunAll(Sections(m, clock), <<>>)

---------------------------------------------------------------------------
(* Snapshots: the documents reports/metrics.json may hold *)

C(str) == Str(str)
SDA1 == <<"/", "d", "e", "v", "/", "s", "d", "a", "1">>

\* disk entries: pseudo file systems, prefixes in other case or position,
\* sizes with the suffix Gi, without it, and with Gi twice
DiskEntries ==
    { Dict([filesystem |-> C(DEVFS), size |-> C(<<"1", "G", "i">>)]),
      Dict([filesystem |-> C(MAP \o <<"1">>)]),
      Dict([filesystem |-> C(SDA1), size |-> C(<<"1", "0", "G", "i">>),
            used |-> C(<<"5", "G", "i">>), available |-> C(<<"1", "0", "G", "b">>),
            use_percent |-> Num(50)]),
      Dict([filesystem |-> C(<<"M", "a", "p">>), size |-> C(Gi \o Gi),
            used |-> C(<<"G", "i", "1">>), use_percent |-> Num(80)]),
      Dict([size |-> C(<<"2", "G", "i", "B">>), available |-> C(Gi)]),
      Dict([filesystem |-> C(<<"/">> \o MAP), size |-> C(<<"G", "i", "5", "G", "i">>),
            use_percent |-> Num(49)]) }

\* network entries: no traffic, traffic one way, absent counts
NetEntries ==
    { Dict([interface |-> C(<<"l", "o">>), rx_bytes |-> Num(0), tx_bytes |-> Num(0),
            rx_packets |-> Num(7)]),
      Dict([interface |-> C(<<"e", "0">>), rx_bytes |-> Num(0), tx_bytes |-> Num(5)]),
      Dict([interface |-> C(<<"e", "1">>), rx_bytes |-> Num(1536), tx_bytes |-> Num(0),
            rx_packets |-> Num(1000), tx_packets |-> Num(0)]),
      Dict([ip_address |-> C(<<":", ":", "1">>)]),
      Dict([rx_bytes |-> Num(1048576)]) }

SeqsUpTo(S, n) == UNION { [1..i -> S] : i \in 0..n }

DiskSnapshots == { Dict([disk |-> List(ds)]) : ds \in SeqsUpTo(DiskEntries, MaxDisks) }
NetSnapshots == { Dict([network |-> List(ns)]) : ns \in SeqsUpTo(NetEntries, MaxNets) }

\* a dict of the keys whose value is given (None here marks an absent key)
Fields(f) ==
    LET present == { key \in DOMAIN f : f[key] # None }
    IN Dict([key \in present |-> f[key]])

SwapSnapshots ==
    { Dict([memory |-> Fields([swap_total_mb |-> total, swap_used_mb |-> used,
                               swap_usage_percent |-> pct,
                               memory_total_mb |-> Num(2048)])]) :
        total \in {None, Num(0), Num(1), Num(2048)},
        used \in {None, Num(0), Num(1024)},
        pct \in {None, Num(0), Num(85)} }

CpuSnapshots ==
    { Dict([hostname |-> C(<<"h">>),
            cpu |-> Dict([cpu_usage_percent |-> Num(p), cpu_cores |-> Num(4)])]) :
        p \in {0, 49, 50, 79, 80, 100} }

\* documents that parse but do not have the shape of a snapshot
ShapeSnapshots ==
    { EmptyList, Num(1), C(<<"x">>),
      Dict([cpu |-> None]),
      Dict([cpu |-> C(<<"x">>)]),
      Dict([cpu |-> Dict([cpu_usage_percent |-> C(<<"1", "2">>)])]),
      Dict([cpu |-> Dict([cpu_usage_percent |-> None])]),
      Dict([cpu |-> Dict([cpu_cores |-> C(<<"4">>), cpu_model |-> Num(1)])]),
      Dict([memory |-> None]),
      Dict([memory |-> EmptyList]),
      Dict([memory |-> Dict([memory_total_mb |-> C(<<"2">>)])]),
      Dict([memory |-> Dict([memory_usage_percent |-> C(<<"2">>)])]),
      Dict([memory |-> Dict([swap_total_mb |-> C(<<"0">>)])]),
      Dict([memory |-> Dict([swap_total_mb |-> Num(1), swap_used_mb |-> None])]),
      Dict([disk |-> None]),
      Dict([disk |-> Num(1)]),
      Dict([disk |-> C(<<>>)]),
      Dict([disk |-> C(<<"x">>)]),
      Dict([disk |-> EmptyDict]),
      Dict([disk |-> Dict([sda |-> EmptyDict])]),
      Dict([disk |-> List(<<None>>)]),
      Dict([disk |-> List(<<C(SDA1)>>)]),
      Dict([disk |-> List(<<Dict([filesystem |-> Num(1)])>>)]),
      Dict([disk |-> List(<<Dict([filesystem |-> C(SDA1), size |-> Num(10)])>>)]),
      Dict([disk |-> List(<<Dict([filesystem |-> C(SDA1), used |-> None])>>)]),
      Dict([disk |-> List(<<Dict([filesystem |-> C(SDA1),
                                  use_percent |-> C(<<"5", "%">>)])>>)]),
      Dict([gpu |-> None]),
      Dict([gpu |-> Dict([gpu_usage_percent |-> Num(3)])]),
      Dict([network |-> None]),
      Dict([network |-> List(<<Num(5)>>)]),
      Dict([network |-> List(<<Dict([rx_bytes |-> C(<<"5">>)])>>)]),
      Dict([network |-> List(<<Dict([rx_bytes |-> Num(0), tx_bytes |-> None])>>)]),
      Dict([network |-> List(<<Dict([rx_bytes |-> Num(5), tx_bytes |-> C(<<"5">>)])>>)]),
      Dict([network |-> List(<<Dict([rx_bytes |-> Num(5), rx_packets |-> C(<<"5">>)])>>)]),
      Dict([network |-> List(<<Dict([tx_bytes |-> Num(5), tx_packets |-> None])>>)]),
      Dict([system_load |-> None]),
      Dict([system_load |-> Dict([load_1min |-> C(<<"0", ".", "5">>)])]),
      Dict([system_load |-> Dict([load_1min |-> Num(1), load_15min |-> None])]),
      Dict([system_load |-> Dict([uptime |-> Num(3)])]) }

Snapshots ==
    DiskSnapshots \cup NetSnapshots \cup SwapSnapshots \cup CpuSnapshots
        \cup ShapeSnapshots \cup {EmptyDict}

\* byte counts: digits that hit the unit boundaries and the rounding cases.
\* A count is m * 1024^z with m of at most ExactDigits digits, so that it
\* fits the 53-bit significand of a float (10 bits to the digit) and the
\* first division does not round.
ExactDigits == 53 \div 10
DigitSamples == {0, 1, 128, 512, K - 1}
Zeros(z) == [i \in 1..z |-> 0]
Mantissas == { m \in SeqsUpTo(DigitSamples, ExactDigits) : m # <<>> /\ m[1] # 0 }
\* and counts about 16 * 1024^103, where the first division leaves the floats
HugeInputs ==
    { <<d>> \o Zeros(z) : d \in {1, OverflowTop - 1, OverflowTop, K - 1},
                          z \in (OverflowDigits - 2)..OverflowDigits }
BytesInputs ==
    {<<>>} \cup HugeInputs
    \cup UNION { { m \o Zeros(z) : z \in 0..(MaxDigits - Len(m)) } : m \in Mantissas }

Percents == -1..MaxPercent

---------------------------------------------------------------------------
(* The file system and load_metrics *)

METRICS_FILE == "reports/metrics.json"
OUTPUT_FILE == "reports/dashboard.html"

Unset == [t |-> "unset"]

\* reports/metrics.json: absent, present but open() or json.load() raises,
\* or holding a JSON document
MetricsFiles ==
    { [kind |-> "absent"] }
    \cup { [kind |-> "error", exc |-> e] : e \in {"PermissionError", "JSONDecodeError"} }
    \cup { [kind |-> "json", doc |-> d] : d \in Snapshots \cup {None} }

OldDocument == <<[k |-> "old"]>>
NoFile == [exists |-> FALSE, writable |-> TRUE, content |-> <<>>]
OutFiles ==
    { NoFile,
      [exists |-> TRUE, writable |-> TRUE, content |-> OldDocument],
      [exists |-> TRUE, writable |-> FALSE, content |-> OldDocument] }

MsgLoading == "Loading metrics from " \o METRICS_FILE \o "..."
MsgNotFound == "Error: Could not find " \o METRICS_FILE
MsgRunCollector == "Run './scripts/monitor.sh -o' first to collect metrics"
MsgLoadError(e) == "Error loading metrics: " \o e
MsgGenerating == "Generating HTML dashboard..."
MsgSuccess == "Dashboard generated successfully!"
MsgFile == "File: " \o OUTPUT_FILE
\* os.path.abspath(OUTPUT_FILE): the working directory is left out
MsgOpen == "Open in browser: file://" \o OUTPUT_FILE

\* Mutant: a read or parse error is swallowed and an empty snapshot returned
load_metrics_swallow(file) ==
    IF file.kind = "absent"
    THEN [data |-> None, printed |-> <<MsgNotFound, MsgRunCollector>>]
    ELSE IF file.kind = "error"
    THEN [data |-> EmptyDict, printed |-> <<MsgLoadError(file.exc)>>]
    ELSE [data |-> file.doc, printed |-> <<>>]

\* load_metrics: the value returned and the lines printed
load_metrics(file) ==
    IF file.kind = "absent"
    THEN [data |-> None, printed |-> <<MsgNotFound, MsgRunCollector>>]
    ELSE IF file.kind = "error"
    THEN [data |-> None, printed |-> <<MsgLoadError(file.exc)>>]
    ELSE [data |-> file.doc, printed |-> <<>>]

---------------------------------------------------------------------------
(* main *)

Idle == fn = "none" /\ arg = Unset /\ ret = Unset /\ prev = Unset /\ calls = 0

Init ==
    /\ pc = "start"
    /\ metricsFile \in MetricsFiles
    /\ outFile \in OutFiles
    \* both files live in reports/: either one existing means it exists
    /\ outDir \in { b \in BOOLEAN : (metricsFile.kind # "absent" \/ outFile.exists) => b }
    /\ metrics = Unset
    /\ html = Unset
    /\ stdout = <<>>
    /\ events = <<>>
    /\ now = 0
    /\ Idle

\* print(f"Loading metrics from {METRICS_FILE}...")
PrintLoading ==
    /\ pc = "start"
    /\ stdout' = Append(stdout, MsgLoading)
    /\ pc' = "load"
    /\ UNCHANGED <<metricsFile, outDir, outFile, metrics, html, events, now>>
    /\ UNCHANGED callVars

\* metrics = load_metrics(); if metrics is None: return
LoadMetrics ==
    /\ pc = "load"
    /\ LET r == load_metrics(metricsFile)
       IN /\ metrics' = r.data
          /\ stdout' = stdout \o r.printed
          /\ pc' = IF r.data = None THEN "done" ELSE "generate"
    /\ events' = Append(events, "load")
    /\ UNCHANGED <<metricsFile, outDir, outFile, html, now>>
    /\ UNCHANGED callVars

\* print("Generating HTML dashboard..."); html = generate_html(metrics)
\* An exception of generate_html leaves main.
GenerateHtml ==
    /\ pc = "generate"
    /\ \E t \in now..MaxClock :
          /\ now' = t
          /\ html' = generate_html(metrics, t)
    /\ stdout' = Append(stdout, MsgGenerating)
    /\ pc' = IF html'.raised # NoExc THEN "raised" ELSE "makedirs"
    /\ events' = Append(events, "generate")
    /\ UNCHANGED <<metricsFile, outDir, outFile, metrics>>
    /\ UNCHANGED callVars

\* Mutant: the directory is ensured only after the file has been opened
MakeDirsLate ==
    /\ pc = "makedirs"
    /\ IF outFile.writable
       THEN /\ outFile' = [exists |-> TRUE, writable |-> TRUE, content |-> html.out]
            /\ outDir' = TRUE
            /\ pc' = "report"
            /\ events' = events \o <<"write", "makedirs">>
       ELSE /\ outFile' = outFile
            /\ outDir' = outDir
            /\ pc' = "raised"
            /\ events' = Append(events, "write")
    /\ UNCHANGED <<metricsFile, metrics, html, stdout, now>>
    /\ UNCHANGED callVars

\* os.makedirs(os.path.dirname(OUTPUT_FILE), exist_ok=True)
MakeDirs ==
    /\ pc = "makedirs"
    /\ outDir' = TRUE
    /\ pc' = "write"
    /\ events' = Append(events, "makedirs")
    /\ UNCHANGED <<metricsFile, outFile, metrics, html, stdout, now>>
    /\ UNCHANGED callVars

\* with open(OUTPUT_FILE, 'w', encoding='utf-8') as f: f.write(html)
\* open() raises on a file that may not be written, and leaves main.
WriteFile ==
    /\ pc = "write"
    /\ IF outFile.writable
       THEN /\ outFile' = [exists |-> TRUE, writable |-> TRUE, content |-> html.out]
            /\ pc' = "report"
       ELSE /\ outFile' = outFile
            /\ pc' = "raised"
    /\ events' = Append(events, "write")
    /\ UNCHANGED <<metricsFile, outDir, metrics, html, stdout, now>>
    /\ UNCHANGED callVars

\* the three closing prints
PrintSuccess ==
    /\ pc = "report"
    /\ stdout' = stdout \o <<MsgSuccess, MsgFile, MsgOpen>>
    /\ pc' = "done"
    /\ events' = Append(events, "report")
    /\ UNCHANGED <<metricsFile, outDir, outFile, metrics, html, now>>
    /\ UNCHANGED callVars

Next ==
    \/ PrintLoading
    \/ LoadMetrics
    \/ GenerateHtml
    \/ MakeDirs
    \/ WriteFile
    \/ PrintSuccess

Spec == Init /\ [][Next]_vars

---------------------------------------------------------------------------
(* The functions called on their own: one function and one argument are    *)
(* fixed at the start and the function is called on it up to MaxCalls      *)
(* times, the clock moving on between the calls.                           *)

UnitInit ==
    /\ pc = "unit"
    /\ metricsFile = [kind |-> "absent"]
    /\ outDir = FALSE
    /\ outFile = NoFile
    /\ metrics = Unset
    /\ html = Unset
    /\ stdout = <<>>
    /\ events = <<>>
    /\ now = 0
    /\ \/ fn = "format_bytes" /\ arg \in BytesInputs
       \/ fn = "get_status_color" /\ arg \in Percents
       \/ fn = "generate_html" /\ arg \in Snapshots
    /\ ret = Unset
    /\ prev = Unset
    /\ calls = 0

Call(result) ==
    /\ calls < MaxCalls
    /\ ret' = result
    /\ prev' = ret
    /\ calls' = calls + 1
    /\ UNCHANGED <<fn, arg>>
    /\ UNCHANGED mainVars

CallFormatBytes ==
    /\ fn = "format_bytes"
    /\ Call(format_bytes(arg))
    /\ UNCHANGED now

CallGetStatusColor ==
    /\ fn = "get_status_color"
    /\ Call(get_status_color(arg))
    /\ UNCHANGED now

\* generate_html reads its argument and the clock, and stores into neither
CallGenerateHtml ==
    /\ fn = "generate_html"
    /\ \E t \in now..MaxClock :
          /\ now' = t
          /\ Call(generate_html(arg, t))

UnitNext ==
    \/ CallFormatBytes
    \/ CallGetStatusColor
    \/ CallGenerateHtml

UnitSpec == UnitInit /\ [][UnitNext]_vars

---------------------------------------------------------------------------
(* Properties *)

InSeq(x, s) == \E i \in DOMAIN s : s[i] = x
IsPrefix(s, t) == Len(s) <= Len(t) /\ SubSeq(t, 1, Len(s)) = s

\* main's generate_html returned a document
Rendered == html # Unset /\ html.raised = NoExc
Frags(kind) == SelectSeq(html.out, LAMBDA f : f.k = kind)

\* the list under `key` of the loaded snapshot (empty when there is none)
InputList(key) ==
    LET x == Get(metrics, key, EmptyList) IN IF x.t = "list" THEN x.v ELSE <<>>

LoadFails == metricsFile.kind \in {"absent", "error"}
Diagnostic ==
    IF metricsFile.kind = "absent" THEN <<MsgNotFound, MsgRunCollector>>
    ELSE <<MsgLoadError(metricsFile.exc)>>

\* C1: when load_metrics fails (the file is missing, or reading or parsing
\* it raises), the diagnostic is printed (for a missing file the one naming
\* the collector command), main returns without raising and without taking
\* any further step, and reports/dashboard.html is left as it was.
C1_LoadFailure ==
    /\ [](LoadFails /\ InSeq("load", events) =>
            /\ pc = "done"
            /\ events = <<"load">>
            /\ metrics = None
            /\ stdout = <<MsgLoading>> \o Diagnostic)
    /\ [][LoadFails => outFile' = outFile /\ outDir' = outDir]_vars

C1_Witness ==
    /\ metricsFile.kind = "absent"
    /\ pc = "done"
    /\ InSeq(MsgRunCollector, stdout)
    /\ outFile.exists /\ outFile.content = OldDocument

\* C2 (as claimed): generate_html never raises on a snapshot that was
\* loaded, whatever the shape of its fields.
C2_NeverRaises == (IsDict(metrics) /\ html # Unset) => html.raised = NoExc

\* the trailing Gi alone replaced by " GB"
SuffixOnly(str) ==
    IF endswith(str, Gi) THEN SubSeq(str, 1, Len(str) - Len(Gi)) \o GB ELSE str

\* the disk entries the claims expect to be rendered
ExpectedDisks ==
    SelectSeq(InputList("disk"),
              LAMBDA d : LET fs == Get(d, "filesystem", Str(<<>>)).v
                         IN ~(startswith(fs, DEVFS) \/ startswith(fs, MAP)))

\* C3 (as claimed): in every disk row each of size, used and available is
\* the entry's string with only a trailing "Gi" replaced by " GB", and the
\* string itself when it does not end with "Gi".
C3_SuffixOnly ==
    Rendered =>
        LET rows == Frags("disk_row")
        IN \A i \in DOMAIN rows :
              i \in DOMAIN ExpectedDisks =>
                 /\ rows[i].size = SuffixOnly(Get(ExpectedDisks[i], "size", Str(NA)).v)
                 /\ rows[i].used = SuffixOnly(Get(ExpectedDisks[i], "used", Str(NA)).v)
                 /\ rows[i].available =
                        SuffixOnly(Get(ExpectedDisks[i], "available", Str(NA)).v)

UnitNames == <<"B", "KB", "MB", "GB", "TB", "PB">>
Min(a, b) == IF a < b THEN a ELSE b

\* C4: format_bytes(0) is the literal "0 B"; a count n > 0 in
\* [1024^k, 1024^(k+1)), that is one of k + 1 base-1024 digits, gets unit
\* number k for k = 0..4, and every count of six digits or more gets PB;
\* 1023 is 1023.00 B, 1024 is 1.00 KB, 1536 is 1.50 KB, 1024^4 is 1.00 TB.
C4_Units ==
    (fn = "format_bytes" /\ calls >= 1) =>
        /\ ret.raised = NoExc
        /\ arg = <<>> => ret.out = ZeroB
        /\ arg # <<>> => ret.out.unit = UnitNames[Min(Len(arg), Len(UnitNames))]
        /\ arg = <<K - 1>> => ret.out = [whole |-> <<K - 1>>, cents |-> 0, unit |-> "B"]
        /\ arg = <<1, 0>> => ret.out = [whole |-> <<1>>, cents |-> 0, unit |-> "KB"]
        /\ arg = <<1, Half>> => ret.out = [whole |-> <<1>>, cents |-> 50, unit |-> "KB"]
        /\ arg = <<1, 0, 0, 0, 0>> => ret.out = [whole |-> <<1>>, cents |-> 0, unit |-> "TB"]

\* C4 holds of every count whose quotient by 1024 is a float (n below
\* 16 * 1024^103); beyond, format_bytes raises OverflowError.
C4_UnitsOfFloats ==
    (fn = "format_bytes" /\ calls >= 1) =>
        IF IntTooLarge(arg) THEN ret.raised = "OverflowError"
        ELSE /\ ret.raised = NoExc
             /\ arg = <<>> => ret.out = ZeroB
             /\ arg # <<>> => ret.out.unit = UnitNames[Min(Len(arg), Len(UnitNames))]

\* C5: get_status_color(p) is green exactly when p < 50, yellow exactly
\* when 50 <= p < 80 and red exactly when p >= 80.
C5_Colors ==
    (fn = "get_status_color" /\ calls >= 1) =>
        /\ ret \in {GREEN, YELLOW, RED}
        /\ ret = GREEN <=> arg < 50
        /\ ret = YELLOW <=> (50 <= arg /\ arg < 80)
        /\ ret = RED <=> arg >= 80

C5_Witness ==
    /\ fn = "get_status_color" /\ calls >= 1
    /\ arg = 80 /\ ret = RED

\* C6: the disk rows are the entries whose filesystem starts with neither
\* "devfs" nor "map", one row each, in the input order; with no such entry
\* the placeholder is rendered and no table.
C6_DiskRows ==
    Rendered =>
        LET rows == Frags("disk_row")
            none == InSeq([k |-> "p", text |-> "No disk information available"], html.out)
        IN /\ Len(rows) = Len(ExpectedDisks)
           /\ \A i \in DOMAIN rows :
                 /\ rows[i].filesystem = Get(ExpectedDisks[i], "filesystem", Str(NA))
                 /\ rows[i].usage = Get(ExpectedDisks[i], "use_percent", Num(0))
           /\ none <=> ExpectedDisks = <<>>
           /\ Frags("disk_table") = <<>> <=> ExpectedDisks = <<>>

C6_Witness ==
    /\ Rendered
    /\ Len(InputList("disk")) = MaxDisks
    /\ Len(Frags("disk_row")) = 2
    /\ Frags("disk_row")[1].filesystem = Str(<<"M", "a", "p">>)
    /\ Frags("disk_row")[2].filesystem = Str(<<"/">> \o MAP)

\* the network entries the claim expects to be rendered
ExpectedNets ==
    SelectSeq(InputList("network"),
              LAMBDA n : \/ Get(n, "rx_bytes", Num(0)).v > 0
                         \/ Get(n, "tx_bytes", Num(0)).v > 0)

\* C7: the network rows are the entries with rx_bytes > 0 or tx_bytes > 0
\* (an absent count is 0), one row each, in the input order; with no such
\* entry the placeholder is rendered and no table.
C7_NetRows ==
    Rendered =>
        LET rows == Frags("net_row")
            none == InSeq([k |-> "p", text |-> "No active network interfaces"], html.out)
        IN /\ Len(rows) = Len(ExpectedNets)
           /\ \A i \in DOMAIN rows :
                 /\ rows[i].interface = Get(ExpectedNets[i], "interface", Str(NA))
                 /\ rows[i].rx_bytes =
                        format_bytes(ToDigits(Get(ExpectedNets[i], "rx_bytes", Num(0)).v)).out
                 /\ rows[i].tx_bytes =
                        format_bytes(ToDigits(Get(ExpectedNets[i], "tx_bytes", Num(0)).v)).out
           /\ none <=> ExpectedNets = <<>>
           /\ Frags("net_table") = <<>> <=> ExpectedNets = <<>>

C7_Witness ==
    /\ Rendered
    /\ Len(InputList("network")) = MaxNets
    /\ Get(InputList("network")[1], "rx_bytes", None) = Num(0)
    /\ Get(InputList("network")[1], "tx_bytes", None) = Num(0)
    /\ Len(Frags("net_row")) = 1
    /\ Frags("net_row")[1].tx_bytes = [whole |-> <<5>>, cents |-> 0, unit |-> "B"]

SwapTotal == Get(Get(metrics, "memory", EmptyDict), "swap_total_mb", Num(0))

\* C8: the document holds the swap block exactly when swap_total_mb > 0
\* (0 when the key is absent), whatever swap_used_mb and swap_usage_percent.
C8_SwapBlock == Rendered => (Frags("swap") # <<>> <=> SwapTotal.v > 0)

C8_Witness ==
    /\ Rendered
    /\ "memory" \in DOMAIN metrics.v
    /\ "swap_total_mb" \notin DOMAIN metrics.v["memory"].v
    /\ Get(metrics.v["memory"], "swap_used_mb", None) = Num(1024)
    /\ Get(metrics.v["memory"], "swap_usage_percent", None) = Num(85)
    /\ Frags("swap") = <<>>

StripFooter(r) ==
    IF r.raised # NoExc THEN r
    ELSE [r EXCEPT !.out = SelectSeq(@, LAMBDA f : f.k # "footer")]

\* C9: a second call of generate_html on the same snapshot gives the
\* document of the first call but for the footer's timestamp, and a call
\* leaves the snapshot as it was.
C9_Deterministic ==
    [][(fn = "generate_html" /\ calls' = calls + 1) =>
          /\ arg' = arg
          /\ calls >= 1 => StripFooter(ret') = StripFooter(ret)]_vars

C9_Witness ==
    /\ fn = "generate_html" /\ calls = 2
    /\ ret.raised = NoExc
    /\ ret # prev
    /\ InSeq([k |-> "footer", generated |-> MaxClock], ret.out)

MainOrder == <<"load", "generate", "makedirs", "write", "report">>

\* C10: main takes its steps in the order load, generate, ensure the
\* directory, write, report, each at most once; the output file changes
\* only in the write, after a document was loaded and rendered and the
\* directory ensured, and the success lines follow a completed write.
C10_LinearOrder ==
    /\ [](/\ IsPrefix(events, MainOrder)
          /\ InSeq(MsgSuccess, stdout) =>
                /\ events = MainOrder
                /\ outFile.exists /\ outFile.content = html.out
                /\ stdout = <<MsgLoading, MsgGenerating, MsgSuccess, MsgFile, MsgOpen>>)
    /\ [][outFile' # outFile =>
            /\ events = <<"load", "generate", "makedirs">>
            /\ metrics \notin {Unset, None}
            /\ Rendered
            /\ outDir
            /\ outFile' = [exists |-> TRUE, writable |-> TRUE, content |-> html.out]]_vars

C10_Witness ==
    /\ pc = "done"
    /\ events = MainOrder
    /\ InSeq(MsgOpen, stdout)
    /\ outFile.content = html.out

====
